---- MODULE Spec2Model ----
(***************************************************************************)
(* A model of pyonsset/elec.py: the grid-electrification propagation of    *)
(* PyOnSSET (separate_elec_status, get_2d_hash_table,                      *)
(* get_unelectrified_rows, elec_single_country and run_elec).              *)
(*                                                                         *)
(* Number representation.  The program works on floats; the model names    *)
(* every quantity by an integer count of a fixed unit:                     *)
(*   - coordinates x, y and planned-grid distances: twentieths of a        *)
(*     distance unit (0.5 is 10, 0.95 is 19), standing for the float       *)
(*     nearest to that decimal;                                            *)
(*   - band distances (ELEC_DISTS) and cell_path: whole distance units;    *)
(*   - populations and the threshold table: halves (10.5 is 21);           *)
(*   - the terrain multiplier 1 + 0.1/c^2 by the fraction                  *)
(*     (10c^2 + 1)/(10c^2).                                                *)
(* Whole numbers and halves are floats themselves and their comparisons    *)
(* are exact.  The reachability test is decided with the roundings of the  *)
(* program's float arithmetic, which is modelled bit for bit.              *)
(* Classification indices are positive integers (a zero class divides by   *)
(* zero in the program and is not an input of the model).                  *)
(***************************************************************************)
EXTENDS Integers, Sequences, FiniteSets, TLC

(***************************************************************************)
(* Values of pyonsset/constants.py (imported at elec.py:10).               *)
(***************************************************************************)
\* ELEC_DISTS: the ascending band distances; the first entry is the
\* degenerate zero distance that elec_single_country skips.
ELEC_DISTS == <<0, 1, 2, 3, 4, 5, 6, 7, 8, 9>>

\* MAX_GRID_EXTEND: the cap on the accumulated extension of a claiming cell.
MAX_GRID_EXTEND == 2

\* EXISTING_GRID_COST_RATIO, in percent (elec.py:116-118: "pays only 10%").
EXISTING_GRID_COST_RATIO_PCT == 10

(***************************************************************************)
(* Bounds of the model.                                                    *)
(***************************************************************************)
\* Largest number of cells of a freely drawn country frame.
MaxCells == 2

\* Largest number of thresholds handed to a direct call of
\* elec_single_country (the number of bands it then processes).
MaxBands == 2

(***************************************************************************)
(* Arithmetic helpers.                                                     *)
(***************************************************************************)
\* abs()
Abs(a) == IF a >= 0 THEN a ELSE -a

\* int(a / b) for b > 0: Python's int() of a float truncates toward zero.
\* For a coordinate a in twentieths and b = 20 * distance_limit the rounded
\* quotient of the program truncates to the same integer as the exact one: a
\* quotient that is an integer is computed exactly, any other is at least
\* 1/b away from an integer.
TruncDiv(a, b) == IF a >= 0 THEN a \div b ELSE -((-a) \div b)

\* numpy astype(int) of one threshold held in halves: truncation toward zero,
\* the result again in halves.
AsTypeInt(v) == 2 * TruncDiv(v, 2)

\* The sequence s without its first element (ELEC_DISTS[1:]).
Rest(s) == IF Len(s) = 0 THEN << >> ELSE SubSeq(s, 2, Len(s))

\* zip(a, b): pairs by position, as long as the shorter of the two.
ZipLen(a, b) == IF Len(a) <= Len(b) THEN Len(a) ELSE Len(b)
Zip(a, b) == [k \in 1..ZipLen(a, b) |-> <<a[k], b[k]>>]

\* values.tolist(): the values of a column as a list.
ToList(column) == SubSeq(column, 1, Len(column))

\* Membership in a sequence.
InSeq(e, s) == \E k \in 1..Len(s) : s[k] = e

(***************************************************************************)
(* separate_elec_status (elec.py:15-31): rows in ascending order, split by *)
(* the truth value of their status.                                        *)
(***************************************************************************)
RECURSIVE SeparateFrom(_, _, _, _)
SeparateFrom(elec_status, i, electrified, unelectrified) ==
    IF i > Len(elec_status) THEN <<electrified, unelectrified>>
    ELSE IF elec_status[i] # 0
         THEN SeparateFrom(elec_status, i + 1, Append(electrified, i), unelectrified)
         ELSE SeparateFrom(elec_status, i + 1, electrified, Append(unelectrified, i))

separate_elec_status(elec_status) == SeparateFrom(elec_status, 1, << >>, << >>)

(***************************************************************************)
(* get_2d_hash_table (elec.py:34-49).  The table is a function from the    *)
(* populated buckets <<hash_x, hash_y>> to the list of rows appended to    *)
(* them; a bucket nobody was appended to is not in its domain.             *)
(***************************************************************************)
\* elec.py:46-47 and 65-66: int(x[row] / distance_limit), x in twentieths.
HashCoord(v, distance_limit) == TruncDiv(v, 20 * distance_limit)

\* A variant of BuildBucket that takes both bucket coordinates from x.
BuildBucketFromX(x, y, row, distance_limit) ==
    <<HashCoord(x[row], distance_limit), HashCoord(x[row], distance_limit)>>

BuildBucket(x, y, row, distance_limit) ==
    <<HashCoord(x[row], distance_limit), HashCoord(y[row], distance_limit)>>

HashAppend(hash_table, b, row) ==
    IF b \in DOMAIN hash_table
    THEN [hash_table EXCEPT ![b] = Append(@, row)]
    ELSE [c \in (DOMAIN hash_table) \cup {b} |->
             IF c = b THEN <<row>> ELSE hash_table[c]]

RECURSIVE HashFrom(_, _, _, _, _, _)
HashFrom(x, y, unelectrified, distance_limit, k, hash_table) ==
    IF k > Len(unelectrified) THEN hash_table
    ELSE HashFrom(x, y, unelectrified, distance_limit, k + 1,
                  HashAppend(hash_table,
                             BuildBucket(x, y, unelectrified[k], distance_limit),
                             unelectrified[k]))

EmptyTable == [b \in {} |-> << >>]

\* A variant of get_2d_hash_table whose buckets have the size of the first
\* band whatever the band.
get_2d_hash_table_first_band(x, y, unelectrified, distance_limit) ==
    HashFrom(x, y, unelectrified, ELEC_DISTS[2], 1, EmptyTable)

get_2d_hash_table(x, y, unelectrified, distance_limit) ==
    HashFrom(x, y, unelectrified, distance_limit, 1, EmptyTable)

(***************************************************************************)
(* get_unelectrified_rows (elec.py:52-80): the nine buckets around the     *)
(* row's own, concatenated in the order of the nine extend() calls.        *)
(***************************************************************************)
\* hash_table.get(hx, {}).get(hy, [])
HashGet(hash_table, hx, hy) ==
    IF <<hx, hy>> \in DOMAIN hash_table THEN hash_table[<<hx, hy>>] ELSE << >>

\* A variant of NeighbourOffsets that looks into the row's own bucket only.
NeighbourOffsetsOwnBucket == << <<0, 0>> >>

\* The (dx, dy) offsets in the order of elec.py:68-78.
NeighbourOffsets ==
    << <<0, 0>>, <<0, -1>>, <<0, 1>>,
       <<1, 0>>, <<1, -1>>, <<1, 1>>,
       <<-1, 0>>, <<-1, -1>>, <<-1, 1>> >>

RECURSIVE ExtendFrom(_, _, _, _, _)
ExtendFrom(hash_table, hash_x, hash_y, k, unelec_list) ==
    IF k > Len(NeighbourOffsets) THEN unelec_list
    ELSE ExtendFrom(hash_table, hash_x, hash_y, k + 1,
                    unelec_list \o HashGet(hash_table,
                                           hash_x + NeighbourOffsets[k][1],
                                           hash_y + NeighbourOffsets[k][2]))

get_unelectrified_rows(hash_table, elec_row, x, y, distance_limit) ==
    ExtendFrom(hash_table,
               HashCoord(x[elec_row], distance_limit),
               HashCoord(y[elec_row], distance_limit),
               1, << >>)

(***************************************************************************)
(* The arithmetic of the program's floats (IEEE-754 binary64, round to     *)
(* nearest, ties to even).  A natural number is the list of its digits in  *)
(* base 2^15, the lowest first and the highest not zero; a float is the    *)
(* record [neg, m, e] of value (-1)^neg * m * 2^e with m of 53 bits at     *)
(* most.  Every operation computes its exact result and rounds it once.    *)
(* The magnitudes of the model are far from overflow and from subnormals.  *)
(* The operations are functions, so that an operand is a value when the    *)
(* operation is applied.                                                   *)
(***************************************************************************)
\* The number of bits of the significand.
DoubleBits == 53

\* The base of the digits.
LimbBits == 15
Limb == 2^LimbBits

\* The natural numbers as lists of digits, and the floats.
Limbs == Seq(Nat)
Doubles == [neg : BOOLEAN, m : Limbs, e : Int]

\* A quotient with its remainder, and two magnitudes brought to one exponent.
QuotRems == [quot : Limbs, rem : Nat]

AlignedPairs == [ma : Limbs, mb : Limbs, e : Int]

LimbAt(a, k) == IF k <= Len(a) THEN a[k] ELSE 0

\* a without its zero digits at the high end.
TrimLimbs[a \in Limbs] ==
    IF Len(a) > 0 /\ a[Len(a)] = 0 THEN TrimLimbs[SubSeq(a, 1, Len(a) - 1)] ELSE a

\* The digits of the natural number n.
NatLimbs[n \in Nat] == IF n = 0 THEN << >> ELSE <<n % Limb>> \o NatLimbs[n \div Limb]

LimbsAddFrom[a \in Limbs, b \in Limbs, k \in Nat, carry \in Nat, acc \in Limbs] ==
    IF k > Len(a) /\ k > Len(b)
    THEN IF carry = 0 THEN acc ELSE Append(acc, carry)
    ELSE LET s == LimbAt(a, k) + LimbAt(b, k) + carry
         IN  LimbsAddFrom[a, b, k + 1, s \div Limb, Append(acc, s % Limb)]

\* a + b.
LimbsAdd[a \in Limbs, b \in Limbs] == LimbsAddFrom[a, b, 1, 0, << >>]

LimbsSubFrom[a \in Limbs, b \in Limbs, k \in Nat, borrow \in Nat, acc \in Limbs] ==
    IF k > Len(a) THEN TrimLimbs[acc]
    ELSE LET s == a[k] - LimbAt(b, k) - borrow
         IN  LimbsSubFrom[a, b, k + 1, IF s < 0 THEN 1 ELSE 0,
                          Append(acc, IF s < 0 THEN s + Limb ELSE s)]

\* a - b for a >= b.
LimbsSub[a \in Limbs, b \in Limbs] == LimbsSubFrom[a, b, 1, 0, << >>]

\* a < b.
LimbsLess[a \in Limbs, b \in Limbs] ==
    IF Len(a) # Len(b) THEN Len(a) < Len(b)
    ELSE \E k \in 1..Len(a) :
            /\ a[k] < b[k]
            /\ \A j \in (k + 1)..Len(a) : a[j] = b[j]

LimbsMulSmallFrom[a \in Limbs, n \in Nat, k \in Nat, carry \in Nat, acc \in Limbs] ==
    IF k > Len(a)
    THEN IF carry = 0 THEN acc ELSE Append(acc, carry)
    ELSE LET s == a[k] * n + carry
         IN  LimbsMulSmallFrom[a, n, k + 1, s \div Limb, Append(acc, s % Limb)]

\* a * n for one digit n.
LimbsMulSmall[a \in Limbs, n \in Nat] ==
    IF n = 0 THEN << >> ELSE LimbsMulSmallFrom[a, n, 1, 0, << >>]

\* a * Limb^k.
LimbsUp[a \in Limbs, k \in Nat] ==
    IF Len(a) = 0 \/ k = 0 THEN a ELSE LimbsUp[<<0>> \o a, k - 1]

LimbsMulFrom[a \in Limbs, b \in Limbs, k \in Nat, acc \in Limbs] ==
    IF k > Len(b) THEN acc
    ELSE LimbsMulFrom[a, b, k + 1,
                      LimbsAdd[acc, LimbsUp[LimbsMulSmall[a, b[k]], k - 1]]]

\* a * b.
LimbsMul[a \in Limbs, b \in Limbs] == LimbsMulFrom[a, b, 1, << >>]

\* Quotient and remainder of a by the integer n, 0 < n <= Limb: long
\* division from the highest digit down.
LimbsDivFrom[a \in Limbs, n \in Nat, k \in Nat, rem \in Nat, q \in Limbs] ==
    IF k = 0 THEN [quot |-> TrimLimbs[q], rem |-> rem]
    ELSE LET r == rem * Limb + a[k]
         IN  LimbsDivFrom[a, n, k - 1, r % n, <<r \div n>> \o q]

LimbsDivMod[a \in Limbs, n \in Nat] == LimbsDivFrom[a, n, Len(a), 0, << >>]

\* a * 2^k.
ShiftLeft[a \in Limbs, k \in Nat] ==
    LimbsUp[LimbsMulSmall[a, 2^(k % LimbBits)], k \div LimbBits]

\* a \div 2^k.
ShiftRight[a \in Limbs, k \in Nat] ==
    LimbsDivMod[SubSeq(a, (k \div LimbBits) + 1, Len(a)), 2^(k % LimbBits)].quot

\* The number of bits of a.
BitLength[a \in Limbs] ==
    IF Len(a) = 0 THEN 0
    ELSE LimbBits * (Len(a) - 1)
         + (CHOOSE k \in 1..LimbBits : 2^(k - 1) <= a[Len(a)] /\ a[Len(a)] < 2^k)

\* The bits kept of a number, one added when the bits dropped (rest) are
\* above the half of the last kept bit, or at the half and the kept bits odd.
RoundedKept[kept \in Limbs, rest \in Limbs, half \in Limbs] ==
    IF LimbsLess[half, rest] \/ (rest = half /\ kept[1] % 2 = 1)
    THEN LimbsAdd[kept, <<1>>]
    ELSE kept

\* m with its lowest `drop` bits rounded away, to nearest and on a tie to
\* the even neighbour; kept is m \div 2^drop.
RoundBits[m \in Limbs, drop \in Nat, kept \in Limbs] ==
    RoundedKept[kept, LimbsSub[m, ShiftLeft[kept, drop]], ShiftLeft[<<1>>, drop - 1]]

\* The float of sign neg nearest to m * 2^e: the bits of m below its 53
\* highest are rounded away.
RoundToDouble[neg \in BOOLEAN, m \in Limbs, e \in Int] ==
    LET drop == BitLength[m] - DoubleBits
    IN  IF drop <= 0 THEN [neg |-> neg, m |-> m, e |-> e]
        ELSE [neg |-> neg,
              m |-> RoundBits[m, drop, ShiftRight[m, drop]],
              e |-> e + drop]

\* float(n) for an integer n of the model (exact).
DoubleOfInt[n \in Int] == [neg |-> n < 0, m |-> NatLimbs[Abs(n)], e |-> 0]

\* a / n for a float a and an integer n, 0 < n <= Limb: the quotient is
\* taken to 64 bits below a's lowest and a last bit tells whether anything is
\* left over, which is all that the rounding needs.
DoubleGuardBits == 64

StickyQuotient[qr \in QuotRems] ==
    LimbsAdd[LimbsMulSmall[qr.quot, 2], IF qr.rem = 0 THEN << >> ELSE <<1>>]

DoubleDivInt[a \in Doubles, n \in Nat] ==
    RoundToDouble[a.neg,
                  StickyQuotient[LimbsDivMod[ShiftLeft[a.m, DoubleGuardBits], n]],
                  a.e - DoubleGuardBits - 1]

\* The float nearest to n / k: a decimal literal such as 0.1 (1 / 10), a
\* coordinate held in twentieths (n / 20).
DoubleRatio[n \in Int, k \in Nat] == DoubleDivInt[DoubleOfInt[n], k]

\* The significands of a and b over their lower exponent.
DoubleAligned[a \in Doubles, b \in Doubles] ==
    LET e == IF a.e <= b.e THEN a.e ELSE b.e
    IN  [ma |-> ShiftLeft[a.m, a.e - e], mb |-> ShiftLeft[b.m, b.e - e], e |-> e]

AddAligned[a \in Doubles, b \in Doubles, al \in AlignedPairs] ==
    IF a.neg = b.neg THEN RoundToDouble[a.neg, LimbsAdd[al.ma, al.mb], al.e]
    ELSE IF LimbsLess[al.ma, al.mb]
    THEN RoundToDouble[b.neg, LimbsSub[al.mb, al.ma], al.e]
    ELSE RoundToDouble[a.neg, LimbsSub[al.ma, al.mb], al.e]

\* a + b.
DoubleAdd[a \in Doubles, b \in Doubles] == AddAligned[a, b, DoubleAligned[a, b]]

\* a - b.
DoubleSub[a \in Doubles, b \in Doubles] ==
    DoubleAdd[a, [neg |-> ~b.neg, m |-> b.m, e |-> b.e]]

\* a * b.
DoubleMul[a \in Doubles, b \in Doubles] ==
    RoundToDouble[a.neg # b.neg, LimbsMul[a.m, b.m], a.e + b.e]

\* abs(a).
DoubleAbs[a \in Doubles] == [neg |-> FALSE, m |-> a.m, e |-> a.e]

LessAligned[a \in Doubles, b \in Doubles, al \in AlignedPairs] ==
    IF Len(a.m) = 0 /\ Len(b.m) = 0 THEN FALSE
    ELSE IF Len(a.m) = 0 THEN ~b.neg
    ELSE IF Len(b.m) = 0 THEN a.neg
    ELSE IF a.neg # b.neg THEN a.neg
    ELSE IF a.neg THEN LimbsLess[al.mb, al.ma]
    ELSE LimbsLess[al.ma, al.mb]

\* a < b.
DoubleLess[a \in Doubles, b \in Doubles] == LessAligned[a, b, DoubleAligned[a, b]]

(***************************************************************************)
(* The reachability test of elec.py:120-121.                               *)
(***************************************************************************)
\* grid_penalty_ratio of one cell (elec.py:95): 1 + 0.1/c^2.  The lists of
\* the model hold the exact fraction <<10c^2 + 1, 10c^2>> as the name of
\* this ratio; PenaltyDouble is the float the program holds for it.
PenaltyRatio(c) == <<10 * c * c + 1, 10 * c * c>>

\* The float 1 + 0.1/c^2 of the ratio named by the fraction p (elec.py:95).
PenaltyDouble(p) ==
    DoubleAdd[DoubleOfInt[1], DoubleDivInt[DoubleRatio[1, 10], p[2] \div 10]]

\* The multiplier 1 (no penalty) as a fraction.
NoPenalty == <<1, 1>>

\* EXISTING_GRID_COST_RATIO as the program holds it.
EXISTING_GRID_COST_RATIO == DoubleRatio[EXISTING_GRID_COST_RATIO_PCT, 100]

\* The left-hand side p * |ce - cu| + EXISTING_GRID_COST_RATIO * existing as
\* the program computes it, every step rounded (elec.py:120-121), for the
\* coordinates ce and cu in twentieths.  Without a penalty nothing is
\* multiplied.
CostDouble(p, ce, cu, existing) ==
    DoubleAdd[IF p = NoPenalty
              THEN DoubleAbs[DoubleSub[DoubleRatio[ce, 20], DoubleRatio[cu, 20]]]
              ELSE DoubleMul[PenaltyDouble(p),
                             DoubleAbs[DoubleSub[DoubleRatio[ce, 20],
                                                 DoubleRatio[cu, 20]]]],
              DoubleMul[EXISTING_GRID_COST_RATIO, DoubleOfInt[existing]]]

\* The same left-hand side without any rounding, times 2000 * p[2].
CostExact(p, ce, cu, existing) ==
    100 * p[1] * Abs(ce - cu) + 20 * EXISTING_GRID_COST_RATIO_PCT * p[2] * existing

\* p * |ce - cu| + EXISTING_GRID_COST_RATIO * existing < distance_limit as the
\* program decides it.  The rounded left-hand side is within 2^-40 of the
\* exact one, and an exact one that is not the limit itself is at least
\* 1 / (2000 * p[2]) away from it, so the roundings can only decide the test
\* where the exact cost equals the limit: there the rounded cost may fall
\* below the limit.
CostBelow(p, ce, cu, existing, distance_limit) ==
    IF CostExact(p, ce, cu, existing) = 2000 * p[2] * distance_limit
    THEN DoubleLess[CostDouble(p, ce, cu, existing), DoubleOfInt[distance_limit]]
    ELSE CostExact(p, ce, cu, existing) < 2000 * p[2] * distance_limit

\* The test as elec.py:120-121 parenthesises it:
\*   grid_penalty_ratio[unelec] * ( (|dx| + R*existing < d) and
\*                                  (penalty*|dy| + R*existing < d) )
\* `if` tests the product of the multiplier with the truth value of the
\* conjunction; the multiplier is never zero.
Reachable(x, y, grid_penalty_ratio, elec, unelec, existing_grid, distance_limit) ==
    LET inner == /\ CostBelow(NoPenalty, x[elec], x[unelec],
                              existing_grid, distance_limit)
                 /\ CostBelow(grid_penalty_ratio[unelec], y[elec], y[unelec],
                              existing_grid, distance_limit)
    IN  grid_penalty_ratio[unelec][1] * (IF inner THEN 1 ELSE 0) # 0

\* A variant of UnderCap that lets a claimer at the cap through.
UnderCapOrAtCap(existing_grid) == existing_grid <= MAX_GRID_EXTEND

\* A variant of UnderCap that lets every claimer through.
UnderCapIgnored(existing_grid) == TRUE

\* elec.py:122: the population and cap conditions of a claim.
UnderCap(existing_grid) == existing_grid < MAX_GRID_EXTEND

PopulationAbove(p, population_limit) == p > population_limit

\* A variant of ClaimedLength that forgets the step of the band.
ClaimedLengthNoStep(existing_grid, distance_limit) == existing_grid

\* elec.py:126: the length written to a claimed cell.
ClaimedLength(existing_grid, distance_limit) == existing_grid + distance_limit

(***************************************************************************)
(* elec_single_country (elec.py:83-132) as a function of its arguments:    *)
(* the loops of the function unrolled by recursion.  A working state r is  *)
(* the record of status, cell_path, changes, the columns written so far,   *)
(* the log of the claims made and the list of the frontiers traversed; a   *)
(* context c holds the lists read from the frame and the band, pass,       *)
(* frontier and index at hand.                                             *)
(***************************************************************************)
\* elec.py:113-126: the candidates of one frontier cell, from the k-th on.
RECURSIVE ForUnelec(_, _, _, _, _)
ForUnelec(c, r, elec, unelectrified_hashed, k) ==
    IF k > Len(unelectrified_hashed) THEN r
    ELSE LET unelec == unelectrified_hashed[k]
             existing_grid == r.cell_path[elec]
             claimed ==
                 /\ Reachable(c.x, c.y, c.grid_penalty_ratio, elec, unelec,
                              existing_grid, c.distance_limit)
                 /\ PopulationAbove(c.pop[unelec], c.population_limit)
                 /\ UnderCap(existing_grid)
                 /\ r.status[unelec] = 0
             after ==
                 [r EXCEPT
                     !.changes = Append(r.changes, unelec),
                     !.status = [r.status EXCEPT ![unelec] = 1],
                     !.cell_path = [r.cell_path EXCEPT ![unelec] =
                                       ClaimedLength(existing_grid, c.distance_limit)],
                     !.claims = Append(r.claims,
                         [cell |-> unelec, by |-> elec, existing |-> existing_grid,
                          distance |-> c.distance_limit, band |-> c.band,
                          pass |-> c.pass, frontier |-> c.electrified])]
         IN  IF claimed
             THEN ForUnelec(c, after, elec, unelectrified_hashed, k + 1)
             ELSE ForUnelec(c, r, elec, unelectrified_hashed, k + 1)

\* elec.py:110-112: the cells of the frontier, from the k-th on.
RECURSIVE ForElec(_, _, _)
ForElec(c, r, k) ==
    IF k > Len(c.electrified) THEN r
    ELSE ForElec(c,
                 ForUnelec(c, r, c.electrified[k],
                           get_unelectrified_rows(c.hash_table, c.electrified[k],
                                                  c.x, c.y, c.distance_limit),
                           1),
                 k + 1)

\* elec.py:107-128: the passes of one band, from the one numbered p on.
RECURSIVE WhileElectrified(_, _, _, _)
WhileElectrified(c, r, electrified, p) ==
    IF Len(electrified) = 0 THEN r
    ELSE LET after == ForElec([c EXCEPT !.electrified = electrified, !.pass = p],
                              [r EXCEPT
                                  !.changes = << >>,
                                  !.frontiers = Append(r.frontiers,
                                      [band |-> c.band, pass |-> p,
                                       frontier |-> electrified])],
                              1)
         IN  WhileElectrified(c, after, after.changes, p + 1)

\* elec.py:101-130: the bands, from the b-th on.
RECURSIVE ForBand(_, _, _, _)
ForBand(c, bands, r, b) ==
    IF b > Len(bands) THEN r
    ELSE LET sep == separate_elec_status(r.status)
             cb == [c EXCEPT
                       !.band = b,
                       !.distance_limit = bands[b][1],
                       !.population_limit = bands[b][2],
                       !.hash_table = get_2d_hash_table(c.x, c.y, sep[2], bands[b][1])]
             after == WhileElectrified(cb, r, sep[1], 1)
         IN  ForBand(c, bands,
                     [after EXCEPT !.df_elec =
                         Append(after.df_elec, [distance |-> bands[b][1], column |-> after.status])],
                     b + 1)

\* elec.py:83-132: the columns returned for a frame and a list of thresholds,
\* with the final cell_path, the log of the claims and the frontiers traversed.
elec_single_country(df_country, num_people) ==
    LET n == Len(df_country)
        c == [x |-> ToList([i \in 1..n |-> df_country[i].x]),
              y |-> ToList([i \in 1..n |-> df_country[i].y]),
              pop |-> ToList([i \in 1..n |-> df_country[i].pop]),
              grid_penalty_ratio |->
                  ToList([i \in 1..n |-> PenaltyRatio(df_country[i].classification)]),
              band |-> 0, pass |-> 0, distance_limit |-> 0, population_limit |-> 0,
              electrified |-> << >>, hash_table |-> EmptyTable]
        r == [status |-> ToList([i \in 1..n |-> df_country[i].elec_future]),
              cell_path |-> ToList([i \in 1..n |-> 0]),
              changes |-> << >>,
              df_elec |-> << >>,
              claims |-> << >>,
              frontiers |-> << >>]
        after == ForBand(c, Zip(Rest(ELEC_DISTS), num_people), r, 1)
    IN  [df_elec |-> after.df_elec, cell_path |-> after.cell_path,
         claims |-> after.claims, frontiers |-> after.frontiers]

(***************************************************************************)
(* State.                                                                  *)
(***************************************************************************)
VARIABLES
    entry,                \* which function the run entered: "elec_single_country" or "run_elec"
    pc,                   \* position of the program
    \* ---- run_elec ----
    selection,            \* the selection argument
    num_people_csv,       \* the threshold table on disk, or NoFile
    settlements_csv,      \* the rows of FF_SETTLEMENTS
    output_dir,           \* TRUE when the output directory exists
    output_dir0,          \* history: output_dir as it was before the call
    settlements_out,      \* the written output file, or NoFile
    df,                   \* the settlements frame in memory
    countries,            \* the list of countries to process
    ci,                   \* index of the country being processed
    rows,                 \* rows of df that make up df_country
    \* ---- elec_single_country ----
    df_country,           \* the frame argument
    num_people,           \* the threshold-list argument
    x, y, pop, status, grid_penalty_ratio, cell_path,
    band,                 \* index into zip(ELEC_DISTS[1:], num_people)
    electrified,          \* the frontier
    hash_table,
    changes,
    ei,                   \* index of `elec` in electrified
    unelectrified_hashed,
    uj,                   \* index of `unelec` in unelectrified_hashed
    df_elec,              \* the output columns written so far
    \* ---- history ----
    pass,                 \* number of the relaxation pass within the band
    claims                \* log of the claims made: who claimed whom, and when

runVars == <<selection, num_people_csv, settlements_csv, output_dir0, output_dir,
             settlements_out, df, countries, ci, rows>>
argVars == <<df_country, num_people>>
cellVars == <<x, y, pop, grid_penalty_ratio>>
loopVars == <<status, cell_path, band, electrified, hash_table, changes, ei,
              unelectrified_hashed, uj, df_elec, pass, claims>>
vars == <<entry, pc, runVars, argVars, cellVars, loopVars>>

\* The bands elec_single_country iterates (elec.py:101).
Bands == Zip(Rest(ELEC_DISTS), num_people)
distance_limit == Bands[band][1]
population_limit == Bands[band][2]

(***************************************************************************)
(* elec_single_country (elec.py:83-132).                                   *)
(***************************************************************************)
\* elec.py:91-98: the columns of the frame become lists, cell_path is zero.
EscEnter ==
    /\ pc = "esc_enter"
    /\ x' = [i \in 1..Len(df_country) |-> df_country[i].x]
    /\ y' = [i \in 1..Len(df_country) |-> df_country[i].y]
    /\ pop' = [i \in 1..Len(df_country) |-> df_country[i].pop]
    /\ status' = [i \in 1..Len(df_country) |-> df_country[i].elec_future]
    /\ grid_penalty_ratio' =
           [i \in 1..Len(df_country) |-> PenaltyRatio(df_country[i].classification)]
    /\ cell_path' = [i \in 1..Len(df_country) |-> 0]
    /\ df_elec' = << >>
    /\ band' = 1
    /\ claims' = << >>
    /\ pc' = "for_band"
    /\ UNCHANGED <<entry, runVars, argVars, electrified, hash_table, changes, ei,
                   unelectrified_hashed, uj, pass>>

\* A variant of BandStart that starts every band again from the status column
\* of the frame.
BandStartReset ==
    /\ pc = "for_band"
    /\ band <= Len(Bands)
    /\ LET fresh == [i \in 1..Len(df_country) |-> df_country[i].elec_future]
           sep == separate_elec_status(fresh)
       IN  /\ status' = fresh
           /\ electrified' = sep[1]
           /\ hash_table' = get_2d_hash_table(x, y, sep[2], distance_limit)
    /\ pass' = 0
    /\ pc' = "while"
    /\ UNCHANGED <<entry, runVars, argVars, cellVars, cell_path, band,
                   changes, ei, unelectrified_hashed, uj, df_elec, claims>>

\* elec.py:101-105: the next band starts: split the rows, build the index.
BandStart ==
    /\ pc = "for_band"
    /\ band <= Len(Bands)
    /\ LET sep == separate_elec_status(status) IN
         /\ electrified' = sep[1]
         /\ hash_table' = get_2d_hash_table(x, y, sep[2], distance_limit)
    /\ pass' = 0
    /\ pc' = "while"
    /\ UNCHANGED <<entry, runVars, argVars, cellVars, status, cell_path, band,
                   changes, ei, unelectrified_hashed, uj, df_elec, claims>>

\* elec.py:107-108: the frontier is not empty: a pass starts.
PassStart ==
    /\ pc = "while"
    /\ Len(electrified) > 0
    /\ changes' = << >>
    /\ ei' = 1
    /\ pass' = pass + 1
    /\ pc' = "for_elec"
    /\ UNCHANGED <<entry, runVars, argVars, cellVars, status, cell_path, band,
                   electrified, hash_table, unelectrified_hashed, uj, df_elec, claims>>

\* The orderings of a list.
Orderings(s) ==
    { [k \in 1..Len(s) |-> s[f[k]]] :
          f \in { g \in [1..Len(s) -> 1..Len(s)] :
                      \A a, b \in 1..Len(s) : g[a] = g[b] => a = b } }

\* A variant of ElecQuery in which the candidates come in an order that is
\* not fixed.
ElecQueryAnyOrder ==
    /\ pc = "for_elec"
    /\ ei <= Len(electrified)
    /\ unelectrified_hashed' \in
           Orderings(get_unelectrified_rows(hash_table, electrified[ei], x, y,
                                            distance_limit))
    /\ uj' = 1
    /\ pc' = "for_unelec"
    /\ UNCHANGED <<entry, runVars, argVars, cellVars, status, cell_path, band,
                   electrified, hash_table, changes, ei, df_elec, pass, claims>>

\* elec.py:110-112: the next frontier cell queries the index.
ElecQuery ==
    /\ pc = "for_elec"
    /\ ei <= Len(electrified)
    /\ unelectrified_hashed' =
           get_unelectrified_rows(hash_table, electrified[ei], x, y, distance_limit)
    /\ uj' = 1
    /\ pc' = "for_unelec"
    /\ UNCHANGED <<entry, runVars, argVars, cellVars, status, cell_path, band,
                   electrified, hash_table, changes, ei, df_elec, pass, claims>>

\* A variant of ClaimTest without the test of the candidate's status.
ClaimTestNoStatus(elec, unelec) ==
    LET existing_grid == cell_path[elec] IN
    /\ Reachable(x, y, grid_penalty_ratio, elec, unelec, existing_grid, distance_limit)
    /\ PopulationAbove(pop[unelec], population_limit)
    /\ UnderCap(existing_grid)

\* elec.py:114-123: the three nested conditions of a claim, for the current
\* frontier cell and candidate.
ClaimTest(elec, unelec) ==
    LET existing_grid == cell_path[elec] IN
    /\ Reachable(x, y, grid_penalty_ratio, elec, unelec, existing_grid, distance_limit)
    /\ PopulationAbove(pop[unelec], population_limit)
    /\ UnderCap(existing_grid)
    /\ status[unelec] = 0

\* A variant of Claim that puts the claimed cell into the frontier that is
\* being traversed.
ClaimIntoFrontier ==
    /\ pc = "for_unelec"
    /\ uj <= Len(unelectrified_hashed)
    /\ LET elec == electrified[ei]
           unelec == unelectrified_hashed[uj]
           existing_grid == cell_path[elec]
       IN  /\ ClaimTest(elec, unelec)
           /\ changes' = Append(changes, unelec)
           /\ electrified' = Append(electrified, unelec)
           /\ status' = [status EXCEPT ![unelec] = 1]
           /\ cell_path' = [cell_path EXCEPT
                               ![unelec] = ClaimedLength(existing_grid, distance_limit)]
           /\ claims' = Append(claims,
                               [cell |-> unelec, by |-> elec, existing |-> existing_grid,
                                distance |-> distance_limit, band |-> band,
                                pass |-> pass, frontier |-> electrified])
    /\ uj' = uj + 1
    /\ UNCHANGED <<entry, pc, runVars, argVars, cellVars, band,
                   hash_table, ei, unelectrified_hashed, df_elec, pass>>

\* elec.py:113-126, the tests pass: the candidate is claimed.
Claim ==
    /\ pc = "for_unelec"
    /\ uj <= Len(unelectrified_hashed)
    /\ LET elec == electrified[ei]
           unelec == unelectrified_hashed[uj]
           existing_grid == cell_path[elec]
       IN  /\ ClaimTest(elec, unelec)
           /\ changes' = Append(changes, unelec)
           /\ status' = [status EXCEPT ![unelec] = 1]
           /\ cell_path' = [cell_path EXCEPT
                               ![unelec] = ClaimedLength(existing_grid, distance_limit)]
           /\ claims' = Append(claims,
                               [cell |-> unelec, by |-> elec, existing |-> existing_grid,
                                distance |-> distance_limit, band |-> band,
                                pass |-> pass, frontier |-> electrified])
    /\ uj' = uj + 1
    /\ UNCHANGED <<entry, pc, runVars, argVars, cellVars, band, electrified,
                   hash_table, ei, unelectrified_hashed, df_elec, pass>>

\* elec.py:113-123, a test fails: the candidate is left alone.
Skip ==
    /\ pc = "for_unelec"
    /\ uj <= Len(unelectrified_hashed)
    /\ ~ClaimTest(electrified[ei], unelectrified_hashed[uj])
    /\ uj' = uj + 1
    /\ UNCHANGED <<entry, pc, runVars, argVars, cellVars, status, cell_path, band,
                   electrified, hash_table, changes, ei, unelectrified_hashed,
                   df_elec, pass, claims>>

\* A variant of ElecDone that ends the pass after one frontier cell.
ElecDoneEndsPass ==
    /\ pc = "for_unelec"
    /\ uj > Len(unelectrified_hashed)
    /\ ei' = Len(electrified) + 1
    /\ pc' = "for_elec"
    /\ UNCHANGED <<entry, runVars, argVars, cellVars, status, cell_path, band,
                   electrified, hash_table, changes, unelectrified_hashed, uj,
                   df_elec, pass, claims>>

\* elec.py:113: the candidate list is exhausted: on to the next frontier cell.
ElecDone ==
    /\ pc = "for_unelec"
    /\ uj > Len(unelectrified_hashed)
    /\ ei' = ei + 1
    /\ pc' = "for_elec"
    /\ UNCHANGED <<entry, runVars, argVars, cellVars, status, cell_path, band,
                   electrified, hash_table, changes, unelectrified_hashed, uj,
                   df_elec, pass, claims>>

\* A variant of PassEnd that hands the claimed cells on in row order.
PassEndSorted ==
    /\ pc = "for_elec"
    /\ ei > Len(electrified)
    /\ electrified' = SortSeq(changes, LAMBDA a, b : a < b)
    /\ pc' = "while"
    /\ UNCHANGED <<entry, runVars, argVars, cellVars, status, cell_path, band,
                   hash_table, changes, ei, unelectrified_hashed, uj, df_elec,
                   pass, claims>>

\* elec.py:128: the pass is over: the claimed cells are the next frontier.
PassEnd ==
    /\ pc = "for_elec"
    /\ ei > Len(electrified)
    /\ electrified' = changes
    /\ pc' = "while"
    /\ UNCHANGED <<entry, runVars, argVars, cellVars, status, cell_path, band,
                   hash_table, changes, ei, unelectrified_hashed, uj, df_elec,
                   pass, claims>>

\* A variant of BandEnd that starts the lengths afresh for the next band.
BandEndResetPath ==
    /\ pc = "while"
    /\ Len(electrified) = 0
    /\ df_elec' = Append(df_elec, [distance |-> distance_limit, column |-> status])
    /\ cell_path' = [i \in 1..Len(cell_path) |-> 0]
    /\ band' = band + 1
    /\ pc' = "for_band"
    /\ UNCHANGED <<entry, runVars, argVars, cellVars, status,
                   electrified, hash_table, changes, ei, unelectrified_hashed, uj,
                   pass, claims>>

\* elec.py:107 and 130: the frontier is empty: the band's column is written.
BandEnd ==
    /\ pc = "while"
    /\ Len(electrified) = 0
    /\ df_elec' = Append(df_elec, [distance |-> distance_limit, column |-> status])
    /\ band' = band + 1
    /\ pc' = "for_band"
    /\ UNCHANGED <<entry, runVars, argVars, cellVars, status, cell_path,
                   electrified, hash_table, changes, ei, unelectrified_hashed, uj,
                   pass, claims>>

\* elec.py:132: no band is left: df_elec is returned.
EscReturn ==
    /\ pc = "for_band"
    /\ band > Len(Bands)
    /\ pc' = IF entry = "run_elec" THEN "run_assign" ELSE "done"
    /\ UNCHANGED <<entry, runVars, argVars, cellVars, loopVars>>

(***************************************************************************)
(* run_elec (elec.py:135-193).                                             *)
(*                                                                         *)
(* The threshold table (pd.read_csv(num_people_csv, index_col=0)) is a     *)
(* record [index |-> the distance keys of its rows, columns |-> the        *)
(* country names in file order, values |-> country -> list of thresholds]; *)
(* a file that does not exist is the record [exists |-> FALSE].            *)
(* A row of the settlements frame is a record; `id` is its index label.    *)
(***************************************************************************)
\* ELEC_DISTS[i] with Python's zero-based index.
ElecDist(i) == ELEC_DISTS[i + 1]

\* SET_ELEC_STEPS: one column per band distance of ELEC_DISTS[1:].
SET_ELEC_STEPS == Rest(ELEC_DISTS)

\* num_people[c].loc[key]: the value in the row labelled key.
Loc(table, c, key) ==
    table.values[c][CHOOSE p \in 1..Len(table.index) : table.index[p] = key]

\* num_people[c].values.astype(int).tolist() (elec.py:188).
ThresholdList(table, c) ==
    [p \in 1..Len(table.values[c]) |-> AsTypeInt(table.values[c][p])]

\* A variant of RowsOf that takes the rows of every country.
RowsOfEveryCountry(frame, c) == [i \in 1..Len(frame) |-> i]

\* The rows of frame whose country is c, in frame order (df.loc[df[SET_COUNTRY] == c]).
RECURSIVE RowsOfFrom(_, _, _, _)
RowsOfFrom(frame, c, i, acc) ==
    IF i > Len(frame) THEN acc
    ELSE RowsOfFrom(frame, c, i + 1,
                    IF frame[i].country = c THEN Append(acc, i) ELSE acc)

RowsOf(frame, c) == RowsOfFrom(frame, c, 1, << >>)

\* A variant of Baseline without the rule of the farther planning horizon.
BaselineNoFarHorizon(row, table, c) ==
    IF \/ row.elec_current = 1
       \/ /\ row.grid_dist_planned < 20 * ElecDist(4)
          /\ row.pop > Loc(table, c, ElecDist(4))
    THEN 1 ELSE 0

\* elec.py:176-183: the baseline flag of one row of country c.
Baseline(row, table, c) ==
    IF \/ row.elec_current = 1
       \/ /\ row.grid_dist_planned < 20 * ElecDist(4)
          /\ row.pop > Loc(table, c, ElecDist(4))
       \/ /\ row.grid_dist_planned < 20 * ElecDist(9)
          /\ row.pop > Loc(table, c, ElecDist(9))
    THEN 1 ELSE 0

\* The value of column `distance` in the frame df_elec returned by
\* elec_single_country, for its i-th row.
ElecColumn(frame_elec, distance, i) ==
    frame_elec[CHOOSE k \in 1..Len(frame_elec) : frame_elec[k].distance = distance].column[i]

HasColumn(frame_elec, distance) ==
    \E k \in 1..Len(frame_elec) : frame_elec[k].distance = distance

\* Position of row i in the list of row numbers rs.
PosIn(rs, i) == CHOOSE k \in 1..Len(rs) : rs[k] = i

\* elec.py:145-147: the output directory is created when it does not exist.
MakeOutputDir ==
    /\ pc = "run_start"
    /\ output_dir' = TRUE
    /\ pc' = "run_check"
    /\ UNCHANGED <<entry, selection, num_people_csv, settlements_csv, output_dir0,
                   settlements_out, df, countries, ci, rows,
                   argVars, cellVars, loopVars>>

\* elec.py:151-152: the threshold table is missing: IOError.
RaiseIOError ==
    /\ pc = "run_check"
    /\ ~num_people_csv.exists
    /\ pc' = "IOError"
    /\ UNCHANGED <<entry, runVars, argVars, cellVars, loopVars>>

\* elec.py:154-158: both tables are read; every country of the threshold
\* table is to be processed.
ReadTables ==
    /\ pc = "run_check"
    /\ num_people_csv.exists
    /\ df' = [i \in 1..Len(settlements_csv) |->
                 [id |-> i,
                  country |-> settlements_csv[i].country,
                  x |-> settlements_csv[i].x,
                  y |-> settlements_csv[i].y,
                  pop |-> settlements_csv[i].pop,
                  classification |-> settlements_csv[i].classification,
                  elec_current |-> settlements_csv[i].elec_current,
                  grid_dist_planned |-> settlements_csv[i].grid_dist_planned]]
    /\ countries' = num_people_csv.columns
    /\ pc' = "run_select"
    /\ UNCHANGED <<entry, selection, num_people_csv, settlements_csv, output_dir0, output_dir,
                   settlements_out, ci, rows, argVars, cellVars, loopVars>>

\* elec.py:159: selection is 'all': nothing is narrowed.
SelectAll ==
    /\ pc = "run_select"
    /\ selection = "all"
    /\ pc' = "run_init"
    /\ UNCHANGED <<entry, runVars, argVars, cellVars, loopVars>>

\* elec.py:160-162: one known country is selected.
SelectCountry ==
    /\ pc = "run_select"
    /\ selection # "all"
    /\ InSeq(selection, countries)
    /\ countries' = <<selection>>
    /\ df' = SelectSeq(df, LAMBDA r : r.country = selection)
    /\ pc' = "run_init"
    /\ UNCHANGED <<entry, selection, num_people_csv, settlements_csv, output_dir0, output_dir,
                   settlements_out, ci, rows, argVars, cellVars, loopVars>>

\* elec.py:163-164: the selected country is unknown: KeyError.
RaiseKeyError ==
    /\ pc = "run_select"
    /\ selection # "all"
    /\ ~InSeq(selection, countries)
    /\ pc' = "KeyError"
    /\ UNCHANGED <<entry, runVars, argVars, cellVars, loopVars>>

\* The missing value (NaN) of a frame: a value that is neither flag.
NaN == -1

\* A frame row with the new columns set to zero.
WithZeroColumns(r) ==
    [id |-> r.id, country |-> r.country, x |-> r.x, y |-> r.y, pop |-> r.pop,
     classification |-> r.classification, elec_current |-> r.elec_current,
     grid_dist_planned |-> r.grid_dist_planned,
     elec_future |-> 0,
     steps |-> [k \in 1..Len(SET_ELEC_STEPS) |-> 0]]

\* elec.py:166-169: the new columns are initialised to zero.
InitColumns ==
    /\ pc = "run_init"
    /\ df' = [i \in 1..Len(df) |-> WithZeroColumns(df[i])]
    /\ ci' = 1
    /\ pc' = "for_country"
    /\ UNCHANGED <<entry, selection, num_people_csv, settlements_csv, output_dir0, output_dir,
                   settlements_out, countries, rows, argVars, cellVars, loopVars>>

\* elec.py:171-183: the next country: its rows get their baseline flag.
CountryBaseline ==
    /\ pc = "for_country"
    /\ ci <= Len(countries)
    /\ LET c == countries[ci] IN
         df' = [i \in 1..Len(df) |->
                   IF df[i].country = c
                   THEN [df[i] EXCEPT !.elec_future = Baseline(df[i], num_people_csv, c)]
                   ELSE df[i]]
    /\ pc' = "run_call"
    /\ UNCHANGED <<entry, selection, num_people_csv, settlements_csv, output_dir0, output_dir,
                   settlements_out, countries, ci, rows, argVars, cellVars, loopVars>>

\* elec.py:186-188: elec_single_country is called on the country's rows with
\* the country's column of thresholds, converted to int.
CallElec ==
    /\ pc = "run_call"
    /\ LET c == countries[ci]
           rs == RowsOf(df, c)
       IN  /\ rows' = rs
           /\ df_country' = [k \in 1..Len(rs) |->
                                [x |-> df[rs[k]].x, y |-> df[rs[k]].y,
                                 pop |-> df[rs[k]].pop,
                                 classification |-> df[rs[k]].classification,
                                 elec_future |-> df[rs[k]].elec_future]]
           /\ num_people' = ThresholdList(num_people_csv, c)
    /\ pc' = "esc_enter"
    /\ UNCHANGED <<entry, selection, num_people_csv, settlements_csv, output_dir0, output_dir,
                   settlements_out, df, countries, ci, cellVars, loopVars>>

\* elec.py:186: the returned columns are assigned to the country's rows,
\* matched by row label and column name; a column of SET_ELEC_STEPS that the
\* returned frame does not have is assigned the missing value.
AssignSteps ==
    /\ pc = "run_assign"
    /\ df' = [i \in 1..Len(df) |->
                 IF InSeq(i, rows)
                 THEN [df[i] EXCEPT !.steps =
                          [k \in 1..Len(SET_ELEC_STEPS) |->
                              IF HasColumn(df_elec, SET_ELEC_STEPS[k])
                              THEN ElecColumn(df_elec, SET_ELEC_STEPS[k], PosIn(rows, i))
                              ELSE NaN]]
                 ELSE df[i]]
    /\ ci' = ci + 1
    /\ pc' = "for_country"
    /\ UNCHANGED <<entry, selection, num_people_csv, settlements_csv, output_dir0, output_dir,
                   settlements_out, countries, rows, argVars, cellVars, loopVars>>

\* elec.py:190-191: every country is done: the frame is saved.
SaveCsv ==
    /\ pc = "for_country"
    /\ ci > Len(countries)
    /\ settlements_out' = [exists |-> TRUE, rows |-> df]
    /\ pc' = "done"
    /\ UNCHANGED <<entry, selection, num_people_csv, settlements_csv, output_dir0, output_dir,
                   df, countries, ci, rows, argVars, cellVars, loopVars>>

(***************************************************************************)
(* Inputs.                                                                 *)
(***************************************************************************)
\* Projected populations, in halves: 0.5 and 1.5.
PopVals == {1, 3}

\* Thresholds of a direct call, in halves: 0 and 1.5.
ThresholdVals == {0, 3}

\* Terrain classes.
ClsVals == {1, 2}

\* One row of a country frame.
Cell(px, py, p, c, e) ==
    [x |-> px, y |-> py, pop |-> p, classification |-> c, elec_future |-> e]

\* Freely drawn frames: up to MaxCells cells on three points, one of them in
\* a bucket of negative index and one far from the others.  Population and
\* class of an electrified cell are never read by elec_single_country and
\* are fixed.
FreePoints == {<<-5, 0>>, <<-22, -5>>, <<70, 0>>}

FreeCells ==
    {Cell(pt[1], pt[2], 3, 1, 1) : pt \in FreePoints}
    \cup {Cell(pt[1], pt[2], pr[1], pr[2], 0) :
             pt \in FreePoints, pr \in {<<3, 1>>, <<1, 2>>}}

FreeFrames == UNION {[1..n -> FreeCells] : n \in 1..MaxCells}

\* Laid-out frames of four cells:
\*   - a cell at the origin with cells at 0.5, 2 and (5, 5);
\*   - cells at 0.1, 1.0, 0.9 and 1.5 on a line;
\*   - a chain with steps of 0.5;
\*   - a cell at the origin with cells at 0.95 along x, along y and along both.
Layouts ==
    { << <<0, 0>>, <<10, 0>>, <<40, 0>>, <<100, 100>> >>,
      << <<2, 0>>, <<20, 0>>, <<18, 0>>, <<30, 0>> >>,
      << <<0, 0>>, <<10, 0>>, <<20, 0>>, <<30, 0>> >>,
      << <<0, 0>>, <<19, 0>>, <<0, 19>>, <<-19, -19>> >> }

\* Which cells of a laid-out frame start electrified.
Seeds == { <<1, 0, 0, 0>>, <<1, 0, 0, 1>>, <<0, 0, 1, 0>> }

\* The classes of the four cells of a laid-out frame.
ClassPatterns == { <<1, 1, 1, 1>>, <<2, 2, 2, 2>>, <<1, 2, 1, 2>>, <<2, 1, 2, 1>> }

LaidOutFrames ==
    { [i \in 1..4 |-> Cell(l[i][1], l[i][2], p, cp[i], sd[i])] :
          l \in Layouts, sd \in Seeds, p \in PopVals, cp \in ClassPatterns }

\* Frames of four cells whose exact cost meets the band distance 1, where
\* the roundings of the program decide the test:
\*   - cells at 0, 0.5, 1.4 and -1 on a line: from 0.5 with one unit of
\*     existing grid the cost of 1.4 is 0.9 + 0.1, from 0 the cost of -1 is 1;
\*   - two pairs exactly one unit apart, 0.15 and 1.15, -2.8 and -1.8.
RoundingLayouts ==
    { << <<0, 0>>, <<10, 0>>, <<28, 0>>, <<-20, 0>> >>,
      << <<3, 0>>, <<23, 0>>, <<-56, 0>>, <<-36, 0>> >> }

RoundingSeeds == { <<1, 0, 0, 0>>, <<0, 0, 1, 0>> }

RoundingFrames ==
    { [i \in 1..4 |-> Cell(l[i][1], l[i][2], 3, 1, sd[i])] :
          l \in RoundingLayouts, sd \in RoundingSeeds }

ThresholdLists == UNION {[1..n -> ThresholdVals] : n \in 1..MaxBands}

\* Threshold tables of run_elec.  A table holds a threshold for every band:
\* it is indexed either by the band distances ELEC_DISTS[1:] or by all of
\* ELEC_DISTS; a column gives, for the row keyed d, a threshold in halves:
\* all zero, falling with the distance (4.5, 1.5, 0.5, then 0), or zero but
\* for 0.5 at key 4 and 1.5 at key 9.
ColumnValue(kind, d) ==
    IF kind = "zero" THEN 0
    ELSE IF kind = "late" THEN (IF d = 4 THEN 1 ELSE IF d = 9 THEN 3 ELSE 0)
    ELSE IF d = 0 THEN 9 ELSE IF d = 1 THEN 3 ELSE IF d = 2 THEN 1 ELSE 0

NoFile == [exists |-> FALSE]

Table(idx, kindA, kindB) ==
    [exists |-> TRUE,
     index |-> idx,
     columns |-> <<"A", "B">>,
     values |-> [c \in {"A", "B"} |->
                    [p \in 1..Len(idx) |->
                        ColumnValue(IF c = "A" THEN kindA ELSE kindB, idx[p])]]]

\* The order of the country columns in the file.
ColumnOrders == { <<"A", "B">>, <<"B", "A">> }

RunTables ==
    { [Table(idx, ka, kb) EXCEPT !.columns = co] :
          idx \in {Rest(ELEC_DISTS), ELEC_DISTS},
          ka \in {"zero", "falling"}, kb \in {"zero", "late"},
          co \in ColumnOrders }

\* One row of the settlements file.
Settlement(c, px, py, p, cur, g) ==
    [country |-> c, x |-> px, y |-> py, pop |-> p, classification |-> 1,
     elec_current |-> cur, grid_dist_planned |-> g]

RunSettlements ==
    { << Settlement("A", 0, 0, 3, 1, 200), Settlement("A", 10, 0, 3, 0, 200),
         Settlement("B", 0, 0, 3, 0, 10) >>,
      << Settlement("B", 0, 0, 1, 0, 100), Settlement("A", 0, 0, 1, 1, 200),
         Settlement("A", 10, 0, 1, 0, 200), Settlement("B", 10, 0, 3, 0, 200) >>,
      << Settlement("A", 0, 0, 1, 1, 200), Settlement("A", 30, 0, 3, 0, 200),
         Settlement("B", 0, 0, 3, 1, 200) >>,
      << Settlement("B", 0, 0, 1, 0, 10), Settlement("B", 200, 0, 3, 0, 10),
         Settlement("A", 0, 0, 3, 1, 200), Settlement("B", 400, 0, 5, 0, 100),
         Settlement("B", 600, 0, 3, 0, 100) >> }

Selections == {"all", "A", "B", "Z"}

(***************************************************************************)
(* Initial states: a call of elec_single_country on a frame and a list of  *)
(* thresholds, or a call of run_elec on the files on disk.                 *)
(***************************************************************************)
InitLocals ==
    /\ x = << >> /\ y = << >> /\ pop = << >> /\ status = << >>
    /\ grid_penalty_ratio = << >> /\ cell_path = << >>
    /\ band = 1
    /\ electrified = << >>
    /\ hash_table = EmptyTable
    /\ changes = << >>
    /\ ei = 1
    /\ unelectrified_hashed = << >>
    /\ uj = 1
    /\ df_elec = << >>
    /\ pass = 0
    /\ claims = << >>
    /\ df = << >> /\ countries = << >> /\ ci = 1 /\ rows = << >>

InitDirect ==
    /\ entry = "elec_single_country"
    /\ pc = "esc_enter"
    /\ df_country \in FreeFrames \cup LaidOutFrames \cup RoundingFrames
    /\ num_people \in ThresholdLists
    /\ selection = "all"
    /\ num_people_csv = NoFile
    /\ settlements_csv = << >>
    /\ output_dir = FALSE
    /\ output_dir0 = output_dir
    /\ settlements_out = NoFile
    /\ InitLocals

InitRun ==
    /\ entry = "run_elec"
    /\ pc = "run_start"
    /\ selection \in Selections
    /\ num_people_csv \in RunTables \cup {NoFile}
    /\ settlements_csv \in RunSettlements
    /\ output_dir \in BOOLEAN
    /\ output_dir0 = output_dir
    /\ settlements_out = NoFile
    /\ df_country = << >>
    /\ num_people = << >>
    /\ InitLocals

Init == InitDirect \/ InitRun

Next ==
    \/ EscEnter
    \/ BandStart
    \/ PassStart
    \/ ElecQuery
    \/ Claim
    \/ Skip
    \/ ElecDone
    \/ PassEnd
    \/ BandEnd
    \/ EscReturn
    \/ MakeOutputDir
    \/ RaiseIOError
    \/ ReadTables
    \/ SelectAll
    \/ SelectCountry
    \/ RaiseKeyError
    \/ InitColumns
    \/ CountryBaseline
    \/ CallElec
    \/ AssignSteps
    \/ SaveCsv

Spec == Init /\ [][Next]_vars

\* The program is scheduled until it returns or raises.
FairSpec == Spec /\ WF_vars(Next)

(***************************************************************************)
(* Properties.                                                             *)
(***************************************************************************)
\* The program is inside elec_single_country, after its lists were set up.
InElec == pc \in {"for_band", "while", "for_elec", "for_unelec"}

\* The program is inside the while loop of a band.
InBand == pc \in {"while", "for_elec", "for_unelec"}

\* The inner loop stands at a candidate that is about to be tested.
AtCandidate == pc = "for_unelec" /\ uj <= Len(unelectrified_hashed)

\* The test as the specification words it: the multiplier on both axes.
ReachableBothAxes(xs, ys, ratio, elec, unelec, existing_grid, limit) ==
    /\ CostBelow(ratio[unelec], xs[elec], xs[unelec], existing_grid, limit)
    /\ CostBelow(ratio[unelec], ys[elec], ys[unelec], existing_grid, limit)

\* C1: for every frontier cell e, every candidate u the index returns for e
\* and every band, the reachability test that gates a claim is true exactly
\* when the terrain multiplier of u times the distance plus the credit for
\* the existing grid is below the band distance on the x axis and on the y
\* axis alike.
C1_ReachTestPenalisesBothAxes ==
    AtCandidate =>
        LET elec == electrified[ei]
            unelec == unelectrified_hashed[uj]
        IN  Reachable(x, y, grid_penalty_ratio, elec, unelec,
                      cell_path[elec], distance_limit)
            <=> ReachableBothAxes(x, y, grid_penalty_ratio, elec, unelec,
                                  cell_path[elec], distance_limit)

\* The rows of a list are in strictly ascending (input) order.
IsAscending(s) == \A k \in 1..(Len(s) - 1) : s[k] < s[k + 1]

\* The cells a list of log entries claimed, in the order of the claims.
CellsOf(entries) == [k \in 1..Len(entries) |-> entries[k].cell]

\* The claims of one pass of one band, in the order they were made.
ClaimsOfPass(b, p) == SelectSeq(claims, LAMBDA c : c.band = b /\ c.pass = p)

\* C2: a cell electrified in an earlier band's output column is electrified
\* in every later band's column, and no step inside elec_single_country
\* sets a status from 1 back to 0.
C2_StatusNeverReverts ==
    /\ [](\A k1, k2 \in 1..Len(df_elec) :
             k1 < k2 =>
                 \A i \in 1..Len(df_elec[k1].column) :
                     df_elec[k1].column[i] = 1 => df_elec[k2].column[i] = 1)
    /\ [][(InElec /\ InElec') =>
             \A i \in 1..Len(status) : status[i] = 1 => status'[i] = 1]_vars

\* A cell claimed in the first band whose population would not pass the
\* second band's threshold is still electrified in the second band's column.
C2_Witness ==
    /\ Len(df_elec) >= 2
    /\ \E i \in 1..Len(df_country) :
          /\ df_country[i].elec_future = 0
          /\ df_elec[1].column[i] = 1
          /\ ~PopulationAbove(pop[i], Bands[2][2])
          /\ df_elec[2].column[i] = 1

\* Frontier cell f, taken by itself, passes every test of a claim on cell u
\* in a band of distance d in which u was indexed: u is in one of the nine
\* buckets around f, within reach of f, and f is under the cap.
CouldClaim(f, u, d) ==
    /\ Abs(HashCoord(x[f], d) - HashCoord(x[u], d)) <= 1
    /\ Abs(HashCoord(y[f], d) - HashCoord(y[u], d)) <= 1
    /\ Reachable(x, y, grid_penalty_ratio, f, u, cell_path[f], d)
    /\ UnderCap(cell_path[f])

\* C3 as stated: in every pass of every band the frontier is traversed in
\* input (row) order, and a cell that several frontier cells could claim in
\* one pass is claimed by the first of them in input order.
C3_FrontierInInputOrderInEveryPass ==
    /\ pc \in {"for_elec", "for_unelec"} => IsAscending(electrified)
    /\ \A n \in 1..Len(claims) :
          \A k \in 1..Len(claims[n].frontier) :
              CouldClaim(claims[n].frontier[k], claims[n].cell, claims[n].distance)
                  => claims[n].by <= claims[n].frontier[k]

\* C3, amended: the frontier of the first pass of a band is the electrified
\* rows in input order; the frontier of a later pass is the cells claimed in
\* the pass before, in the order they were claimed.  A cell that several
\* frontier cells could claim in one pass is claimed by the first of them in
\* this traversal order, and gets that claimer's length plus the band distance.
C3_FrontierInClaimOrder ==
    /\ (pc \in {"for_elec", "for_unelec"} /\ pass = 1) =>
           /\ IsAscending(electrified)
           /\ \A i \in 1..Len(status) :
                  InSeq(i, electrified) <=> (status[i] # 0 /\ ~InSeq(i, changes))
    /\ (pc \in {"for_elec", "for_unelec"} /\ pass > 1) =>
           electrified = CellsOf(ClaimsOfPass(band, pass - 1))
    /\ \A n \in 1..Len(claims) :
          LET c == claims[n] IN
          /\ InSeq(c.by, c.frontier)
          /\ \A k \in 1..Len(c.frontier) :
                 CouldClaim(c.frontier[k], c.cell, c.distance)
                     => PosIn(c.frontier, c.by) <= k
          /\ c.existing = cell_path[c.by]
          /\ cell_path[c.cell] = c.existing + c.distance

\* In a pass after the first, a cell was claimed by a frontier cell although
\* a frontier cell of a lower row could have claimed it.
C3_Witness ==
    \E n \in 1..Len(claims) :
        /\ claims[n].pass > 1
        /\ \E k \in 1..Len(claims[n].frontier) :
              /\ claims[n].frontier[k] < claims[n].by
              /\ CouldClaim(claims[n].frontier[k], claims[n].cell, claims[n].distance)

\* C4: the while loop of every band terminates, and over a whole call of
\* elec_single_country every cell is claimed at most once.
C4_LoopTerminatesClaimsOnce ==
    /\ InBand ~> (pc = "for_band")
    /\ [](\A n, m \in 1..Len(claims) : claims[n].cell = claims[m].cell => n = m)

\* A band has ended after a pass beyond the first made a claim.
C4_Witness ==
    /\ pc = "for_band"
    /\ \E n \in 1..Len(claims) : claims[n].pass >= 2

\* The threshold the caller's table supplies for the band of a claim: for a
\* call from run_elec the value in the row keyed by the band distance of the
\* country's column, for a direct call the entry of the list passed in.
SuppliedThreshold(b) ==
    IF entry = "run_elec"
    THEN Loc(num_people_csv, countries[ci], Rest(ELEC_DISTS)[b])
    ELSE num_people[b]

\* The status vector at the start of the b-th band.
StatusBefore(b) ==
    IF b = 1 THEN [i \in 1..Len(df_country) |-> df_country[i].elec_future]
    ELSE df_elec[b - 1].column

\* C5: a cell becomes newly electrified in a band only if its population is
\* strictly above the threshold the table supplies for the country and the
\* band; when that threshold is at or above every population, the band's
\* column equals the status at the start of the band.
C5_ClaimsOnlyAboveSuppliedThreshold ==
    InElec =>
        /\ \A n \in 1..Len(claims) :
              pop[claims[n].cell] > SuppliedThreshold(claims[n].band)
        /\ \A b \in 1..Len(df_elec) :
              (\A i \in 1..Len(pop) : SuppliedThreshold(b) >= pop[i])
                  => df_elec[b].column = StatusBefore(b)

\* C6: every claim was made by a cell whose own accumulated length was, at
\* that moment, strictly below MAX_GRID_EXTEND.
C6_ClaimersUnderCap ==
    InElec =>
        \A n \in 1..Len(claims) :
            /\ claims[n].existing < MAX_GRID_EXTEND
            /\ cell_path[claims[n].by] = claims[n].existing
            /\ cell_path[claims[n].cell] - claims[n].distance < MAX_GRID_EXTEND

\* A frontier cell at or over the cap stands at an unelectrified candidate
\* that is within reach and populous enough: only the cap stops the claim.
C6_Witness ==
    /\ AtCandidate
    /\ LET elec == electrified[ei]
           unelec == unelectrified_hashed[uj]
       IN  /\ cell_path[elec] >= MAX_GRID_EXTEND
           /\ Reachable(x, y, grid_penalty_ratio, elec, unelec,
                        cell_path[elec], distance_limit)
           /\ PopulationAbove(pop[unelec], population_limit)
           /\ status[unelec] = 0

\* C7: in every band of a call from run_elec, the threshold applied in the
\* claim test is the value the country's column of the threshold table holds
\* in the row keyed by the band's distance.
C7_ThresholdIsTableValueAtBandKey ==
    (entry = "run_elec" /\ InBand) =>
        population_limit = Loc(num_people_csv, countries[ci], distance_limit)

\* Row u is in one of the lists of the index.
Indexed(u) == \E b \in DOMAIN hash_table : InSeq(u, hash_table[b])

\* No bucket of the nine around row e is populated.
NeighbourhoodEmpty(e) ==
    \A k \in 1..Len(NeighbourOffsets) :
        <<HashCoord(x[e], distance_limit) + NeighbourOffsets[k][1],
          HashCoord(y[e], distance_limit) + NeighbourOffsets[k][2]>>
            \notin DOMAIN hash_table

\* C8: a query of the band's index at the position of any eligible
\* (unelectrified, indexed) row returns that row, whatever the sign of its
\* coordinates; a query whose nine buckets are all unpopulated returns the
\* empty list.
C8_QueryAtOwnPositionFindsRow ==
    InBand =>
        /\ \A u \in 1..Len(status) :
              (status[u] = 0 \/ Indexed(u)) =>
                  InSeq(u, get_unelectrified_rows(hash_table, u, x, y, distance_limit))
        /\ \A e \in 1..Len(status) :
              NeighbourhoodEmpty(e) =>
                  get_unelectrified_rows(hash_table, e, x, y, distance_limit) = << >>

\* The index holds a row of negative coordinates in a bucket of negative
\* index, and the query of the frontier cell at hand came back empty.
C8_Witness ==
    /\ pc = "for_unelec"
    /\ unelectrified_hashed = << >>
    /\ NeighbourhoodEmpty(electrified[ei])
    /\ \E u \in 1..Len(status) :
          /\ Indexed(u)
          /\ x[u] < 0
          /\ HashCoord(x[u], distance_limit) < 0

\* The frame of the four-cell scenario: cells at (0,0), (0.5,0), (2,0) and
\* (5,5) in this order, the first one electrified, positive populations, one
\* band of distance 1 with threshold 0.
IsFourCellScenario ==
    /\ entry = "elec_single_country"
    /\ Len(df_country) = 4
    /\ [i \in 1..4 |-> <<df_country[i].x, df_country[i].y>>]
           = << <<0, 0>>, <<10, 0>>, <<40, 0>>, <<100, 100>> >>
    /\ [i \in 1..4 |-> df_country[i].elec_future] = <<1, 0, 0, 0>>
    /\ \A i \in 1..4 : df_country[i].pop > 0
    /\ num_people = <<0>>
    /\ ELEC_DISTS[2] = 1

\* C9: in the four-cell scenario, after the band has converged the cell at
\* (0.5,0) is electrified with length exactly 1, and the cells at (2,0) and
\* (5,5) are unelectrified with length 0.
C9_FourCellScenario ==
    (IsFourCellScenario /\ pc = "done") =>
        /\ status = <<1, 1, 0, 0>>
        /\ cell_path = <<0, 1, 0, 0>>
        /\ Len(df_elec) = 1
        /\ df_elec[1].distance = 1
        /\ df_elec[1].column = <<1, 1, 0, 0>>

\* The four-cell scenario has run to its end, the claimed cell being of the
\* class with the larger multiplier.
C9_Witness ==
    /\ IsFourCellScenario
    /\ pc = "done"
    /\ df_country[2].classification = 1
    /\ Len(claims) = 1

\* C10: when run_elec raises because the threshold table is missing or the
\* selected country is unknown, no baseline classification or propagation
\* has run and the output storage is as it was before the call: no file is
\* written and no directory is created.
C10_ErrorLeavesOutputUntouched ==
    pc \in {"IOError", "KeyError"} =>
        /\ output_dir = output_dir0
        /\ ~settlements_out.exists
        /\ df_country = << >>
        /\ claims = << >>
        /\ \A i \in 1..Len(df) : "elec_future" \notin DOMAIN df[i]

\* The positions of run_elec at which the frame has its new columns.
RunPositions ==
    {"for_country", "run_call", "esc_enter", "for_band", "while", "for_elec",
     "for_unelec", "run_assign", "done"}

\* run_elec has computed the baseline flag of the rows of country c.
BaselineDone(c) ==
    /\ entry = "run_elec"
    /\ pc \in RunPositions
    /\ \E k \in 1..Len(countries) :
          /\ countries[k] = c
          /\ (k < ci \/ (k = ci /\ pc # "for_country"))

\* run_elec has written the band columns of the rows of country c.
StepsAssigned(c) ==
    /\ entry = "run_elec"
    /\ pc \in RunPositions
    /\ \E k \in 1..Len(countries) : countries[k] = c /\ k < ci

\* The threshold the table holds for country c in the row keyed by distance d.
TableThreshold(c, d) == Loc(num_people_csv, c, d)

\* The two horizons of the baseline rule for one row of the frame.
NearHorizon(row) ==
    /\ row.grid_dist_planned < 20 * ELEC_DISTS[4 + 1]
    /\ row.pop > TableThreshold(row.country, ELEC_DISTS[4 + 1])

FarHorizon(row) ==
    /\ row.grid_dist_planned < 20 * ELEC_DISTS[9 + 1]
    /\ row.pop > TableThreshold(row.country, ELEC_DISTS[9 + 1])

\* C11: the baseline flag run_elec computes for a row of country c is 1
\* exactly when the row is currently electrified, or its planned-grid
\* distance is below ELEC_DISTS[4] and its population above c's threshold at
\* ELEC_DISTS[4], or the same at ELEC_DISTS[9]; otherwise it is 0.  A
\* currently electrified row is electrified in the baseline and in every band
\* column, also in the file that is saved.
C11_BaselineFlagRule ==
    /\ \A i \in 1..Len(df) :
          /\ BaselineDone(df[i].country) =>
                df[i].elec_future =
                    IF \/ df[i].elec_current = 1
                       \/ NearHorizon(df[i])
                       \/ FarHorizon(df[i])
                    THEN 1 ELSE 0
          /\ (StepsAssigned(df[i].country) /\ df[i].elec_current = 1) =>
                /\ df[i].elec_future = 1
                /\ \A k \in 1..Len(SET_ELEC_STEPS) : df[i].steps[k] = 1
    /\ (entry = "run_elec" /\ pc = "done") =>
          /\ settlements_out.exists
          /\ settlements_out.rows = df

\* A run over all countries is saved with a row flagged by the near horizon
\* only, a row flagged by the far horizon only, a row near the planned grid
\* left unflagged because its population is not above the threshold, and a
\* currently electrified row.
C11_Witness ==
    /\ entry = "run_elec"
    /\ pc = "done"
    /\ selection = "all"
    /\ \E i \in 1..Len(df) :
          df[i].elec_current = 0 /\ NearHorizon(df[i]) /\ ~FarHorizon(df[i])
              /\ df[i].elec_future = 1
    /\ \E i \in 1..Len(df) :
          df[i].elec_current = 0 /\ ~NearHorizon(df[i]) /\ FarHorizon(df[i])
              /\ df[i].elec_future = 1
    /\ \E i \in 1..Len(df) :
          /\ df[i].elec_current = 0
          /\ df[i].grid_dist_planned < 20 * ELEC_DISTS[4 + 1]
          /\ df[i].elec_future = 0
    /\ \E i \in 1..Len(df) :
          df[i].elec_current = 1 /\ df[i].steps[Len(SET_ELEC_STEPS)] = 1

\* What run_elec computes for the rows of country c, as a function of the
\* rows of c in the settlements file and of c's column of the threshold
\* table alone: the baseline flags, and the columns elec_single_country
\* returns for the frame of these rows.
CountryFrame(settlements, table, c) ==
    LET rs == RowsOf(settlements, c) IN
    [k \in 1..Len(rs) |->
        [x |-> settlements[rs[k]].x, y |-> settlements[rs[k]].y,
         pop |-> settlements[rs[k]].pop,
         classification |-> settlements[rs[k]].classification,
         elec_future |-> Baseline(settlements[rs[k]], table, c)]]

CountryAlone(settlements, table, c) ==
    LET rs == RowsOf(settlements, c)
        frame == CountryFrame(settlements, table, c)
        returned == elec_single_country(frame, ThresholdList(table, c))
    IN  [id \in {rs[k] : k \in 1..Len(rs)} |->
            [elec_future |-> frame[PosIn(rs, id)].elec_future,
             steps |-> [j \in 1..Len(SET_ELEC_STEPS) |->
                           IF HasColumn(returned.df_elec, SET_ELEC_STEPS[j])
                           THEN ElecColumn(returned.df_elec, SET_ELEC_STEPS[j],
                                           PosIn(rs, id))
                           ELSE NaN]]]

\* The labels of the rows of the frame in memory.
FrameIds == {df[i].id : i \in 1..Len(df)}

\* C12: countries do not interact.  While run_elec processes country c it
\* hands elec_single_country the rows of c only and changes no row of another
\* country; and when it has finished, with selection 'all' or with one
\* country selected, and in whatever order the table lists the countries,
\* the baseline flag and band columns of every row of c are the values
\* computed from the rows of c and the column of c alone.
C12_CountriesDoNotInteract ==
    /\ []((entry = "run_elec" /\ InElec) =>
             /\ rows = RowsOf(df, countries[ci])
             /\ Len(df_country) = Len(rows)
             /\ \A k \in 1..Len(rows) :
                   /\ df[rows[k]].country = countries[ci]
                   /\ df_country[k].x = df[rows[k]].x
                   /\ df_country[k].y = df[rows[k]].y
                   /\ df_country[k].pop = df[rows[k]].pop
                   /\ df_country[k].classification = df[rows[k]].classification
                   /\ df_country[k].elec_future = df[rows[k]].elec_future)
    /\ []((entry = "run_elec" /\ pc = "done") =>
             /\ FrameIds =
                    IF selection = "all" THEN 1..Len(settlements_csv)
                    ELSE {id \in 1..Len(settlements_csv) :
                             settlements_csv[id].country = selection}
             /\ \A i \in 1..Len(df) :
                   LET alone == CountryAlone(settlements_csv, num_people_csv,
                                             df[i].country)[df[i].id]
                   IN  /\ df[i].elec_future = alone.elec_future
                       /\ df[i].steps = alone.steps)
    /\ [][(entry = "run_elec" /\ pc \in RunPositions /\ pc' \in RunPositions) =>
             /\ Len(df') = Len(df)
             /\ \A i \in 1..Len(df) :
                   df'[i] # df[i] =>
                       /\ ci <= Len(countries)
                       /\ df[i].country = countries[ci]]_vars

\* A run over all countries, the table listing B before A and the file
\* interleaving their rows, has ended with a cell claimed in each of the two
\* countries, the two countries having cells at the same positions.
C12_Witness ==
    /\ entry = "run_elec"
    /\ pc = "done"
    /\ selection = "all"
    /\ countries = <<"B", "A">>
    /\ \E i, j, k \in 1..Len(df) :
          /\ i < j /\ j < k
          /\ df[i].country = "B" /\ df[j].country = "A" /\ df[k].country = "B"
          /\ df[j].elec_future = 0 /\ df[j].steps[1] = 1
          /\ df[k].elec_future = 0 /\ df[k].steps[1] = 1
          /\ df[j].x = df[k].x /\ df[j].y = df[k].y

\* elec_single_country has returned.
EscReturned ==
    \/ pc = "run_assign"
    \/ (pc = "done" /\ entry = "elec_single_country")

\* C13: a run of elec_single_country is determined by its arguments: the
\* frontier of every pass of every band, the per-band status columns and the
\* final grid_extension_length vector are the values of one function of the
\* cells in their input order, their initial status and the thresholds, so
\* two runs on the same arguments agree on all of them.
C13_RunIsFunctionOfArguments ==
    /\ (pc = "for_elec" /\ ei = 1) =>
           InSeq([band |-> band, pass |-> pass, frontier |-> electrified],
                 elec_single_country(df_country, num_people).frontiers)
    /\ EscReturned =>
           LET returned == elec_single_country(df_country, num_people) IN
           /\ df_elec = returned.df_elec
           /\ cell_path = returned.cell_path
           /\ claims = returned.claims

\* A direct call over two bands has returned after a frontier cell claimed
\* two candidates in one pass and a later pass made a claim as well.
C13_Witness ==
    /\ pc = "done"
    /\ entry = "elec_single_country"
    /\ \E n \in 1..(Len(claims) - 1) :
          /\ claims[n].by = claims[n + 1].by
          /\ claims[n].pass = claims[n + 1].pass
          /\ claims[n].band = claims[n + 1].band
    /\ \E n \in 1..Len(claims) : claims[n].pass > 1
    /\ Len(df_elec) = 2

\* C14: in the step in which frontier cell e claims cell u in a band of
\* distance d, the status of u goes from 0 to 1, the length of u becomes the
\* length e has at that moment plus d, nothing else of status and lengths
\* changes, and u joins the cells handed to the next pass without being in
\* the frontier that is traversed.  The cells claimed in a pass are in the
\* frontier of the next pass, and a cell claimed in pass N makes its own
\* claims in pass N+1 of that band or in a later band, never sooner.
C14_ClaimStepEffects ==
    /\ [][Len(claims') = Len(claims) + 1 =>
             LET e == electrified[ei]
                 u == unelectrified_hashed[uj]
             IN  /\ status[u] = 0
                 /\ status' = [status EXCEPT ![u] = 1]
                 /\ cell_path' = [cell_path EXCEPT ![u] = cell_path[e] + distance_limit]
                 /\ cell_path'[e] = cell_path[e]
                 /\ ~InSeq(u, changes)
                 /\ changes' = Append(changes, u)
                 /\ ~InSeq(u, electrified)
                 /\ electrified' = electrified
                 /\ claims'[Len(claims')].cell = u
                 /\ claims'[Len(claims')].by = e]_vars
    /\ [][(pc = "for_elec" /\ pc' = "while") => electrified' = changes]_vars
    /\ []((pc \in {"for_elec", "for_unelec"} /\ pass > 1) =>
             \A n \in 1..Len(claims) :
                 (claims[n].band = band /\ claims[n].pass = pass - 1)
                     => InSeq(claims[n].cell, electrified))
    /\ [](\A n, m \in 1..Len(claims) :
             claims[m].by = claims[n].cell =>
                 \/ claims[m].band = claims[n].band /\ claims[m].pass = claims[n].pass + 1
                 \/ claims[m].band > claims[n].band)

\* A cell claimed in one pass has made a claim of its own in the next pass of
\* the same band, handing on a length that is not zero.
C14_Witness ==
    \E n, m \in 1..Len(claims) :
        /\ claims[m].by = claims[n].cell
        /\ claims[m].band = claims[n].band
        /\ claims[m].pass = claims[n].pass + 1
        /\ claims[m].existing = claims[n].existing + claims[n].distance
        /\ cell_path[claims[m].cell] = claims[m].existing + claims[m].distance

\* The log entries that claimed cell i.
ClaimsOfCell(i) == {n \in 1..Len(claims) : claims[n].cell = i}

\* C15: over a whole call, through all bands, the grid_extension_length of
\* every cell starts at 0 and never decreases; it changes only in the step
\* that claims the cell, at most once, and keeps that value; a cell
\* electrified in the baseline keeps length 0.
C15_LengthWrittenOnce ==
    /\ []((pc = "for_band" /\ band = 1) =>
             \A i \in 1..Len(cell_path) : cell_path[i] = 0)
    /\ [][(InElec /\ (InElec' \/ EscReturned')) =>
             \A i \in 1..Len(cell_path) :
                 /\ cell_path'[i] >= cell_path[i]
                 /\ cell_path'[i] # cell_path[i] =>
                        /\ cell_path[i] = 0
                        /\ status[i] = 0 /\ status'[i] = 1
                        /\ ClaimsOfCell(i) = {}
                        /\ Len(claims') = Len(claims) + 1
                        /\ claims'[Len(claims')].cell = i]_vars
    /\ []((InElec \/ EscReturned) =>
             \A i \in 1..Len(cell_path) :
                 /\ df_country[i].elec_future # 0 => cell_path[i] = 0
                 /\ Cardinality(ClaimsOfCell(i)) <= 1
                 /\ \A n \in ClaimsOfCell(i) :
                        cell_path[i] = claims[n].existing + claims[n].distance
                 /\ ClaimsOfCell(i) = {} => cell_path[i] = 0)

\* The second band has ended with a claim of its own, a cell claimed in the
\* first band still carrying the length it was given then.
C15_Witness ==
    /\ pc = "for_band"
    /\ Len(df_elec) = 2
    /\ \E n, m \in 1..Len(claims) :
          /\ claims[n].band = 1
          /\ claims[m].band = 2
          /\ cell_path[claims[n].cell] = claims[n].existing + claims[n].distance
          /\ cell_path[claims[n].cell] < cell_path[claims[m].cell]

\* A band has just started: the rows are split and the index is built, and
\* no pass has begun.
BandJustStarted == pc = "while" /\ pass = 0

\* The places <<bucket, position>> of the index that hold row u.
PlacesOf(u) ==
    {bk \in UNION {{<<b, k>> : k \in 1..Len(hash_table[b])} : b \in DOMAIN hash_table} :
        hash_table[bk[1]][bk[2]] = u}

\* C16: between the end of a band and the start of the next neither status
\* nor lengths change, so a band after the first starts from the column
\* written for the band before it.  When a band has started, its frontier
\* holds exactly the cells electrified at that moment, each once (the cells
\* of the baseline and the cells claimed in earlier bands), and its index
\* holds exactly the cells unelectrified at that moment, each once, in the
\* bucket of its coordinates divided by the distance of this band and
\* truncated.
C16_BandStartsFromPreviousEnd ==
    /\ [][((pc = "while" /\ pc' = "for_band") \/ (pc = "for_band" /\ pc' = "while")) =>
             /\ status' = status
             /\ cell_path' = cell_path
             /\ pc' = "for_band" => df_elec'[Len(df_elec')].column = status']_vars
    /\ [](BandJustStarted =>
             /\ band > 1 => status = df_elec[band - 1].column
             /\ Len(df_elec) = band - 1
             /\ \A n \in 1..Len(claims) : claims[n].band < band
             /\ \A i \in 1..Len(status) :
                   /\ InSeq(i, electrified) <=> status[i] # 0
                   /\ status[i] # 0 <=>
                          \/ df_country[i].elec_future # 0
                          \/ \E n \in 1..Len(claims) : claims[n].cell = i
                   /\ Cardinality({k \in 1..Len(electrified) : electrified[k] = i})
                          = (IF status[i] # 0 THEN 1 ELSE 0)
                   /\ Cardinality(PlacesOf(i)) = (IF status[i] = 0 THEN 1 ELSE 0)
                   /\ \A bk \in PlacesOf(i) :
                          bk[1] = <<TruncDiv(x[i], 20 * ELEC_DISTS[band + 1]),
                                    TruncDiv(y[i], 20 * ELEC_DISTS[band + 1])>>
             /\ \A b \in DOMAIN hash_table : Len(hash_table[b]) > 0)

\* The second band has just started: a cell claimed in the first band is in
\* its frontier, and its index holds a cell in a bucket other than the one a
\* bucket size of the first band's distance would give.
C16_Witness ==
    /\ BandJustStarted
    /\ band = 2
    /\ \E n \in 1..Len(claims) : InSeq(claims[n].cell, electrified)
    /\ \E u \in 1..Len(status) :
          /\ PlacesOf(u) # {}
          /\ <<TruncDiv(x[u], 20 * ELEC_DISTS[2]), TruncDiv(y[u], 20 * ELEC_DISTS[2])>>
                 \notin DOMAIN hash_table

\* A band has ended and its column is written; the index is still the one
\* of that band.
BandJustEnded == pc = "for_band" /\ band > 1

\* Electrified cell e could claim unelectrified cell u by the rule of the
\* b-th band: u is in the nine buckets around e in the band's index, the
\* reachability test holds, the population is above the band's threshold and
\* e is under the cap.
ClaimableInBand(e, u, b) ==
    /\ status[e] # 0
    /\ status[u] = 0
    /\ InSeq(u, get_unelectrified_rows(hash_table, e, x, y, Bands[b][1]))
    /\ Reachable(x, y, grid_penalty_ratio, e, u, cell_path[e], Bands[b][1])
    /\ pop[u] > Bands[b][2]
    /\ cell_path[e] < MAX_GRID_EXTEND

\* C17: when the relaxation loop of a band has ended, no electrified cell
\* can claim an unelectrified cell by the band's rule, and the column written
\* for the band is this status.
C17_BandEndIsFixpoint ==
    BandJustEnded =>
        /\ df_elec[band - 1].column = status
        /\ df_elec[band - 1].distance = Bands[band - 1][1]
        /\ \A e, u \in 1..Len(status) : ~ClaimableInBand(e, u, band - 1)

\* A band has ended after claims in two passes or more, leaving an
\* unelectrified cell that is near an electrified cell, within its reach and
\* populous enough, the electrified cell being at the cap.
C17_Witness ==
    /\ BandJustEnded
    /\ \E n \in 1..Len(claims) : claims[n].band = band - 1 /\ claims[n].pass >= 2
    /\ \E e, u \in 1..Len(status) :
          /\ status[e] # 0
          /\ status[u] = 0
          /\ InSeq(u, get_unelectrified_rows(hash_table, e, x, y, Bands[band - 1][1]))
          /\ Reachable(x, y, grid_penalty_ratio, e, u, cell_path[e], Bands[band - 1][1])
          /\ pop[u] > Bands[band - 1][2]
          /\ cell_path[e] >= MAX_GRID_EXTEND

\* A pass is over: every frontier cell has been through its candidates.
PassOver == pc = "for_elec" /\ ei > Len(electrified)

\* The cells a scan of all rows that were unelectrified when the pass began
\* would claim for the frontier of the pass, with the test of the code.
ScanClaims ==
    {u \in 1..Len(status) :
        /\ status[u] = 0 \/ InSeq(u, changes)
        /\ pop[u] > population_limit
        /\ \E k \in 1..Len(electrified) :
              /\ Reachable(x, y, grid_penalty_ratio, electrified[k], u,
                           cell_path[electrified[k]], distance_limit)
              /\ cell_path[electrified[k]] < MAX_GRID_EXTEND}

\* Offsets, in twentieths, of positions less than the distance d away on an
\* axis: the farthest ones, the ones half way and the position itself.
NearOffsets(d) == {-(20 * d - 1), -(10 * d), 0, 10 * d, 20 * d - 1}

\* Displacements <<dx, dy>> to positions that near on both axes: along each
\* axis, and to the four farthest corners.
NearDisplacements(d) ==
    {<<a, 0>> : a \in NearOffsets(d)} \cup {<<0, a>> : a \in NearOffsets(d)}
        \cup {<<a, b>> : a, b \in {-(20 * d - 1), 20 * d - 1}}

\* C18: the index of a band hides no cell that could be claimed: every
\* indexed cell u whose distance from a cell e is below the band distance on
\* both axes is in the list the query for e returns, for coordinates of
\* either sign, and so is it for a query from any position that near to u
\* (index, coordinates and distance stay as they are when the band starts);
\* and the cells claimed in a pass are exactly the cells a scan of all
\* unelectrified cells with the same test would claim.
C18_IndexHidesNoClaimableCell ==
    /\ BandJustStarted =>
           \A u \in 1..Len(status) :
               Indexed(u) =>
                   /\ \A dd \in NearDisplacements(distance_limit) :
                          InSeq(u, get_unelectrified_rows(hash_table, 1,
                                                          <<x[u] + dd[1]>>,
                                                          <<y[u] + dd[2]>>,
                                                          distance_limit))
                   /\ \A e \in 1..Len(status) :
                          (/\ Abs(x[e] - x[u]) < 20 * distance_limit
                           /\ Abs(y[e] - y[u]) < 20 * distance_limit)
                              => InSeq(u, get_unelectrified_rows(hash_table, e, x, y,
                                                                 distance_limit))
    /\ PassOver => {changes[k] : k \in 1..Len(changes)} = ScanClaims

\* A pass is over in which a cell of negative coordinates was claimed by a
\* cell of another bucket.
C18_Witness ==
    /\ PassOver
    /\ \E n \in 1..Len(claims) :
          /\ claims[n].band = band
          /\ claims[n].pass = pass
          /\ InSeq(claims[n].cell, changes)
          /\ x[claims[n].cell] < 0
          /\ TruncDiv(x[claims[n].cell], 20 * distance_limit)
                 # TruncDiv(x[claims[n].by], 20 * distance_limit)

\* The largest distance among the bands processed so far, the one in
\* progress included; 0 before the first band.
BandsSoFar == IF InBand THEN band ELSE band - 1

LargestDistanceSoFar ==
    IF BandsSoFar = 0 THEN 0
    ELSE CHOOSE d \in {ELEC_DISTS[b + 1] : b \in 1..BandsSoFar} :
             \A b \in 1..BandsSoFar : ELEC_DISTS[b + 1] <= d

\* C19: in every state of elec_single_country, an unelectrified cell has
\* grid_extension_length 0, and the grid_extension_length of every cell is
\* strictly below MAX_GRID_EXTEND plus the largest band distance processed so
\* far.
C19_LengthBounded ==
    (InElec \/ EscReturned) =>
        LET largest == LargestDistanceSoFar IN
        \A i \in 1..Len(cell_path) :
            /\ status[i] = 0 => cell_path[i] = 0
            /\ cell_path[i] < MAX_GRID_EXTEND + largest

\* In the second band a cell has been claimed by a cell one step under the
\* cap, which gives it the largest length the bound allows, while a cell is
\* still unelectrified.
C19_Witness ==
    /\ InBand
    /\ band = 2
    /\ \E i \in 1..Len(cell_path) :
          cell_path[i] = MAX_GRID_EXTEND + distance_limit - 1
    /\ \E n \in 1..Len(claims) :
          claims[n].band = 2 /\ claims[n].existing = MAX_GRID_EXTEND - 1
    /\ \E i \in 1..Len(status) : status[i] = 0

====
